---- MODULE Spec2Model ----
(***************************************************************************)
(* Karaoke pitch tracker (backend/main.py): the comparator                 *)
(* compare_pitches, the segmenter find_problem_sections and the websocket  *)
(* session loop websocket_endpoint with its ConnectionManager registry.    *)
(*                                                                         *)
(* Times are integers in milliseconds (0.05 s = 50, 0.5 s = 500,           *)
(* 1.0 s = 1000).  Pitches and deviations are integers; the pitch values   *)
(* drawn below are chosen so that |user - ref| / ref * 100 is exact.       *)
(* An Optional[float] is a sequence: <<>> is None, <<v>> is the value v.   *)
(***************************************************************************)
EXTENDS Integers, Sequences, FiniteSets, TLC

VARIABLES
    reference_pitch_data,   \* module-level reference curve (main.py:36-37)
    cmp_user,               \* comparator harness: the user list passed in
    cmp_offset,             \* comparator harness: the time_offset passed in
    cmp_out,                \* outcome of the latest compare_pitches call
    cmp_prev,               \* outcome of the call before the latest one
    cmp_calls,              \* number of compare_pitches calls made so far
    seg_in,                 \* segmenter harness: the comparisons passed in
    seg_threshold,          \* segmenter harness: the threshold passed in
    seg_out,                \* outcome of the find_problem_sections call
    active_connections,     \* manager.active_connections (main.py:58)
    pc,                     \* where each websocket_endpoint coroutine is suspended
    audio_buffer,           \* per session: the pending samples (main.py:193)
    current_time_offset,    \* per session: main.py:196
    message,                \* per session: the message last received (main.py:201)
    pending,                \* per session: the text handed to websocket.send_text
    msgs_left,              \* per client: messages it will still send
    total_samples,          \* per session: samples received so far
    detect_calls,           \* per session: calls of detect_pitch_from_audio so far
    n_updates,              \* per session: pitch_update messages delivered so far
    resync,                 \* per session: the last song_position, and the first
                            \* pitch_update delivered after it
    last_user_pitch,        \* per session: what detect_pitch_from_audio last returned
                            \* (main.py:219)
    ended,                  \* per session: an end_performance message was received
    analysed,               \* per session: the samples of the buffers whose
                            \* pitch_update was delivered, in delivery order
    bc_pc,                  \* manager.broadcast: where the coroutine is suspended
    bc_index,               \* manager.broadcast: position of the list iterator
    bc_target,              \* manager.broadcast: the connection being sent to
    bc_delivered,           \* per connection: broadcast messages delivered to it
    bc_throughout           \* connections registered since the broadcast began

cmp_vars == <<cmp_user, cmp_offset, cmp_out, cmp_prev, cmp_calls>>

seg_vars == <<seg_in, seg_threshold, seg_out>>

session_vars == <<active_connections, pc, audio_buffer, current_time_offset, message,
                  pending, msgs_left, total_samples, detect_calls, n_updates, resync,
                  last_user_pitch, ended, analysed>>

bc_iter == <<bc_pc, bc_index, bc_target, bc_delivered>>

bc_vars == <<bc_iter, bc_throughout>>

vars == <<reference_pitch_data, cmp_vars, seg_vars, session_vars, bc_vars>>

----------------------------------------------------------------------------
(* Optional values *)

None == <<>>

Some(v) == <<v>>

IsNone(o) == o = <<>>

Val(o) == o[1]

Abs(x) == IF x < 0 THEN -x ELSE x

----------------------------------------------------------------------------
(* Bounds of the model *)

MaxRefLen == 2

MaxUserLen == 2

MaxCmpCalls == 2

\* longest comparison list drawn for find_problem_sections
MaxSegLen == 3

\* samples per second, scaled down from 44100 (main.py:40)
SAMPLE_RATE == 2

\* largest number of samples in one audio_chunk message
MaxChunk == 4

\* messages one client sends
MaxMsgs == 4

\* messages the first client sends when two clients are connected; the
\* second client sends a single one
MultiMsgs == 1

(* Program constants *)

TOLERANCE == 50

buffer_duration == 1000

MIN_SECTION == 500

samples_per_buffer == (SAMPLE_RATE * buffer_duration) \div 1000

----------------------------------------------------------------------------
(* compare_pitches (main.py:109-140) *)

\* keys of ref_map in dict iteration order: first-insertion order, no duplicates
RECURSIVE ref_keys(_)
ref_keys(reference) ==
    IF reference = <<>> THEN <<>>
    ELSE LET front == ref_keys(SubSeq(reference, 1, Len(reference) - 1))
             t == reference[Len(reference)].timestamp
         IN IF \E i \in 1..Len(front) : front[i] = t THEN front ELSE Append(front, t)

\* ref_map[t]: the dict comprehension keeps the pitch of the LAST point with key t
ref_map(reference, t) ==
    LET last == CHOOSE i \in 1..Len(reference) :
                    /\ reference[i].timestamp = t
                    /\ \A j \in (i+1)..Len(reference) : reference[j].timestamp # t
    IN reference[last].pitch

\* min(keys, key=lambda t: abs(t - adjusted)): the first minimal key in iteration order
closest_ref_time(keys, adjusted_timestamp) ==
    LET first == CHOOSE i \in 1..Len(keys) :
                    /\ \A j \in 1..Len(keys) :
                           Abs(keys[i] - adjusted_timestamp) <= Abs(keys[j] - adjusted_timestamp)
                    /\ \A j \in 1..(i-1) :
                           Abs(keys[j] - adjusted_timestamp) > Abs(keys[i] - adjusted_timestamp)
    IN keys[first]

\* the tolerance test of line 124
close_enough(closest, adjusted_timestamp) ==
    Abs(closest - adjusted_timestamp) < TOLERANCE

\* the deviation without the abs() of line 131
deviation_signed(ref_pitch, user_pitch) ==
    IF ~IsNone(ref_pitch) /\ ~IsNone(user_pitch) /\ Val(ref_pitch) > 0
    THEN Some(((Val(user_pitch) - Val(ref_pitch)) * 100) \div Val(ref_pitch))
    ELSE None

\* lines 128-131
deviation_of(ref_pitch, user_pitch) ==
    IF ~IsNone(ref_pitch) /\ ~IsNone(user_pitch) /\ Val(ref_pitch) > 0
    THEN Some((Abs(Val(user_pitch) - Val(ref_pitch)) * 100) \div Val(ref_pitch))
    ELSE None

\* lines 133-138: the dict appended for a matched user point
comparison_of(reference, closest, user_point, adjusted_timestamp) ==
    [timestamp |-> adjusted_timestamp,
     reference_pitch |-> ref_map(reference, closest),
     user_pitch |-> user_point.pitch,
     deviation_percentage |-> deviation_of(ref_map(reference, closest), user_point.pitch)]

\* the for loop of lines 116-138, over a non-empty ref_map
RECURSIVE compare_loop(_, _, _, _)
compare_loop(reference, user, time_offset, comparisons) ==
    IF user = <<>> THEN comparisons
    ELSE LET user_point == Head(user)
             adjusted_timestamp == user_point.timestamp + time_offset
             closest == closest_ref_time(ref_keys(reference), adjusted_timestamp)
         IN compare_loop(reference, Tail(user), time_offset,
                IF close_enough(closest, adjusted_timestamp)
                THEN Append(comparisons,
                            comparison_of(reference, closest, user_point, adjusted_timestamp))
                ELSE comparisons)

\* the harness before any call
NotCalled == [raised |-> "not called", value |-> <<>>]

\* a module-level list that survives between calls
stale_comparisons == cmp_out.value

\* line 111: the local list every call starts from
fresh_comparisons == <<>>

\* the closest-key lookup hoisted out of the loop: an empty reference raises
\* even when there is no user point to look up
compare_pitches_eager(reference, user, time_offset) ==
    IF reference = <<>>
    THEN [raised |-> "ValueError", value |-> <<>>]
    ELSE [raised |-> "", value |-> compare_loop(reference, user, time_offset, fresh_comparisons)]

\* the outcome of a call: the returned list, or the exception raised.
\* min() of an empty ref_map.keys() raises ValueError at the first user point.
compare_pitches(reference, user, time_offset) ==
    IF user # <<>> /\ reference = <<>>
    THEN [raised |-> "ValueError", value |-> <<>>]
    ELSE [raised |-> "", value |-> compare_loop(reference, user, time_offset, fresh_comparisons)]

----------------------------------------------------------------------------
(* The harnesses at rest *)

\* no compare_pitches call made
CmpIdle ==
    /\ cmp_user = <<>>
    /\ cmp_offset = 0
    /\ cmp_out = NotCalled
    /\ cmp_prev = NotCalled
    /\ cmp_calls = 0

SegNotCalled == [called |-> FALSE, value |-> <<>>]

\* no find_problem_sections call made
SegIdle ==
    /\ seg_in = <<>>
    /\ seg_threshold = 0
    /\ seg_out = SegNotCalled

----------------------------------------------------------------------------
(* The websocket session: ConnectionManager (main.py:56-72) and           *)
(* websocket_endpoint (main.py:187-259).  A coroutine runs atomically from *)
(* one await to the next; pc names the await it is suspended in.           *)

Conns == {"ws1", "ws2"}

NoMsg == [type |-> "none"]

NoResync == [position |-> None, update |-> NoMsg]

\* manager.broadcast has not been called
NoBroadcast ==
    /\ bc_pc = "idle"
    /\ bc_index = 0
    /\ bc_target = "nobody"
    /\ bc_delivered = [c \in Conns |-> 0]
    /\ bc_throughout = {}

\* the state before any client has arrived
NoSessions ==
    /\ active_connections = <<>>
    /\ pc = [c \in Conns |-> "absent"]
    /\ audio_buffer = [c \in Conns |-> <<>>]
    /\ current_time_offset = [c \in Conns |-> 0]
    /\ message = [c \in Conns |-> NoMsg]
    /\ pending = [c \in Conns |-> NoMsg]
    /\ msgs_left = [c \in Conns |-> 0]
    /\ total_samples = [c \in Conns |-> 0]
    /\ detect_calls = [c \in Conns |-> 0]
    /\ n_updates = [c \in Conns |-> 0]
    /\ resync = [c \in Conns |-> NoResync]
    /\ last_user_pitch = [c \in Conns |-> <<>>]
    /\ ended = [c \in Conns |-> FALSE]
    /\ analysed = [c \in Conns |-> <<>>]
    /\ NoBroadcast

\* ConnectionManager.disconnect leaving the list as it is
list_remove_nothing(list, x) == list

\* ConnectionManager.disconnect with pop() for remove(websocket)
list_pop(list, x) == SubSeq(list, 1, Len(list) - 1)

\* ConnectionManager.disconnect: list.remove drops the first occurrence
RECURSIVE list_remove(_, _)
list_remove(list, x) ==
    IF list = <<>> THEN <<>>
    ELSE IF Head(list) = x THEN Tail(list)
    ELSE <<Head(list)>> \o list_remove(Tail(list), x)

\* line 214 with a threshold of one sample
buffer_nonempty(buffer) == Len(buffer) >= 1

\* line 214: if len(audio_buffer) >= samples_per_buffer
buffer_full(buffer) == Len(buffer) >= samples_per_buffer

\* line 216: audio_buffer[:samples_per_buffer]
first_buffer(buffer) == SubSeq(buffer, 1, samples_per_buffer)

\* line 240 with the slice one sample late
remaining_samples_skip(buffer) == SubSeq(buffer, samples_per_buffer + 2, Len(buffer))

\* line 240: audio_buffer[samples_per_buffer:]
remaining_samples(buffer) == SubSeq(buffer, samples_per_buffer + 1, Len(buffer))

\* line 237 left out: the offset never advances
advance_offset_stalled(offset) == offset

\* line 237: current_time_offset += buffer_duration
advance_offset(offset) == offset + buffer_duration

\* line 244 treating the position as an increment
seek_relative(offset, position) == offset + position

\* line 244: current_time_offset = message['position']
seek(offset, position) == position

\* what pYIN can return for one buffer: nothing (the except branch of line
\* 105-107, or no frames), or a list of pitch points with increasing timestamps
DetectOutputs ==
    {<<>>,
     <<[timestamp |-> 0, pitch |-> Some(260)], [timestamp |-> 500, pitch |-> None]>>}

detect_pitch_from_audio(audio_data) == DetectOutputs

\* the text of lines 229-234
pitch_update(user_pitch, comparisons, time_offset) ==
    [type |-> "pitch_update", user_pitch |-> user_pitch,
     comparisons |-> comparisons, time_offset |-> time_offset]

\* the text of lines 249-252
performance_complete == [type |-> "performance_complete"]

\* reference curves a server may have loaded
SessionReference ==
    <<[timestamp |-> 0, pitch |-> Some(200)],
      [timestamp |-> 1000, pitch |-> Some(100)],
      [timestamp |-> 2500, pitch |-> Some(200)]>>

Positions == {0, 2500}

\* the except branches of lines 254-259: manager.disconnect, then the coroutine ends
\* (list.remove raises ValueError when the socket is not in the list, and
\* that exception leaves websocket_endpoint unhandled)
Abort(c) ==
    /\ active_connections' = list_remove(active_connections, c)
    /\ pc' = [pc EXCEPT ![c] =
                 IF \E i \in 1..Len(active_connections) : active_connections[i] = c
                 THEN "closed" ELSE "crashed"]
    /\ pending' = [pending EXCEPT ![c] = NoMsg]
    /\ bc_throughout' = bc_throughout \ {c}

\* a client opens a connection: websocket_endpoint starts and awaits accept (line 61)
Accept(c) ==
    /\ pc[c] = "new"
    /\ pc' = [pc EXCEPT ![c] = "accepting"]
    /\ UNCHANGED <<reference_pitch_data, cmp_vars, seg_vars, last_user_pitch, ended, analysed, bc_vars, active_connections, audio_buffer,
                   current_time_offset, message, pending, msgs_left, total_samples,
                   detect_calls, n_updates, resync>>

\* accept returns: line 62 registers the socket, lines 193-196 set up the
\* session, and the loop awaits receive_text (line 200)
Register(c) ==
    /\ pc[c] = "accepting"
    /\ active_connections' = Append(active_connections, c)
    /\ audio_buffer' = [audio_buffer EXCEPT ![c] = <<>>]
    /\ current_time_offset' = [current_time_offset EXCEPT ![c] = 0]
    /\ pc' = [pc EXCEPT ![c] = "receiving"]
    /\ UNCHANGED <<reference_pitch_data, cmp_vars, seg_vars, last_user_pitch, ended, analysed, bc_vars, message, pending, msgs_left,
                   total_samples, detect_calls, n_updates, resync>>

\* accept raises: the exception leaves websocket_endpoint outside its try
AcceptFails(c) ==
    /\ pc[c] = "accepting"
    /\ pc' = [pc EXCEPT ![c] = "closed"]
    /\ UNCHANGED <<reference_pitch_data, cmp_vars, seg_vars, last_user_pitch, ended, analysed, bc_vars, active_connections, audio_buffer,
                   current_time_offset, message, pending, msgs_left, total_samples,
                   detect_calls, n_updates, resync>>

Receives(c, msg) ==
    /\ pc[c] = "receiving"
    /\ msgs_left[c] > 0
    /\ msgs_left' = [msgs_left EXCEPT ![c] = @ - 1]
    /\ message' = [message EXCEPT ![c] = msg]

\* an audio_chunk of n samples (lines 203-240, up to the await of line 229)
RecvAudioChunk(c, n) ==
    LET samples == [i \in 1..n |-> total_samples[c] + i]
        buffer == audio_buffer[c] \o samples
    IN /\ Receives(c, [type |-> "audio_chunk", arg |-> n])
       /\ total_samples' = [total_samples EXCEPT ![c] = @ + n]
       /\ audio_buffer' = [audio_buffer EXCEPT ![c] = buffer]
       /\ IF buffer_full(buffer)
          THEN /\ detect_calls' = [detect_calls EXCEPT ![c] = @ + 1]
               /\ \E detected \in detect_pitch_from_audio(first_buffer(buffer)) :
                    LET comparisons == compare_pitches(reference_pitch_data, detected,
                                                       current_time_offset[c])
                    IN /\ last_user_pitch' = [last_user_pitch EXCEPT ![c] = detected]
                       /\ IF comparisons.raised # ""
                          THEN Abort(c)
                          ELSE /\ pending' = [pending EXCEPT ![c] =
                                                 pitch_update(detected, comparisons.value,
                                                              current_time_offset[c])]
                               /\ pc' = [pc EXCEPT ![c] = "sending_update"]
                               /\ UNCHANGED <<active_connections, bc_throughout>>
          ELSE UNCHANGED <<detect_calls, pending, pc, active_connections, last_user_pitch,
                           bc_throughout>>
       /\ UNCHANGED <<reference_pitch_data, cmp_vars, seg_vars, ended, analysed, bc_iter, current_time_offset, n_updates, resync>>

\* send_text of the pitch_update returns: lines 237-240, then back to line 200
SendUpdateDone(c) ==
    /\ pc[c] = "sending_update"
    /\ n_updates' = [n_updates EXCEPT ![c] = @ + 1]
    /\ resync' = [resync EXCEPT ![c] =
                     IF ~IsNone(@.position) /\ @.update = NoMsg
                     THEN [@ EXCEPT !.update = pending[c]] ELSE @]
    /\ current_time_offset' = [current_time_offset EXCEPT ![c] = advance_offset(@)]
    /\ analysed' = [analysed EXCEPT ![c] = @ \o first_buffer(audio_buffer[c])]
    /\ audio_buffer' = [audio_buffer EXCEPT ![c] = remaining_samples(@)]
    /\ pending' = [pending EXCEPT ![c] = NoMsg]
    /\ pc' = [pc EXCEPT ![c] = "receiving"]
    /\ UNCHANGED <<reference_pitch_data, cmp_vars, seg_vars, last_user_pitch, ended, bc_vars, active_connections, message, msgs_left,
                   total_samples, detect_calls>>

\* a song_position message (lines 242-244)
RecvSongPosition(c, position) ==
    /\ Receives(c, [type |-> "song_position", arg |-> position])
    /\ current_time_offset' = [current_time_offset EXCEPT ![c] = seek(@, position)]
    /\ resync' = [resync EXCEPT ![c] = [position |-> Some(position), update |-> NoMsg]]
    /\ UNCHANGED <<reference_pitch_data, cmp_vars, seg_vars, last_user_pitch, ended, analysed, bc_vars, active_connections, pc, audio_buffer,
                   pending, total_samples, detect_calls, n_updates>>

\* an end_performance message (lines 246-252, up to the await of line 249)
RecvEndPerformance(c) ==
    /\ Receives(c, [type |-> "end_performance", arg |-> 0])
    /\ pending' = [pending EXCEPT ![c] = performance_complete]
    /\ ended' = [ended EXCEPT ![c] = TRUE]
    /\ pc' = [pc EXCEPT ![c] = "sending_complete"]
    /\ UNCHANGED <<reference_pitch_data, cmp_vars, seg_vars, last_user_pitch, analysed, bc_vars, active_connections, audio_buffer,
                   current_time_offset, total_samples, detect_calls, n_updates, resync>>

\* send_text of performance_complete returns: back to line 200
SendCompleteDone(c) ==
    /\ pc[c] = "sending_complete"
    /\ pending' = [pending EXCEPT ![c] = NoMsg]
    /\ pc' = [pc EXCEPT ![c] = "receiving"]
    /\ UNCHANGED <<reference_pitch_data, cmp_vars, seg_vars, last_user_pitch, ended, analysed, bc_vars, active_connections, audio_buffer,
                   current_time_offset, message, msgs_left, total_samples, detect_calls,
                   n_updates, resync>>

\* a message of a type no branch of lines 203-246 names: the loop goes round
RecvUnknownType(c) ==
    /\ Receives(c, [type |-> "unknown", arg |-> 0])
    /\ UNCHANGED <<reference_pitch_data, cmp_vars, seg_vars, last_user_pitch, ended, analysed, bc_vars, active_connections, pc, audio_buffer,
                   current_time_offset, pending, total_samples, detect_calls, n_updates,
                   resync>>

\* text that json.loads rejects, or a message without 'type', 'audio_data' or
\* 'position', or audio_data that does not decode: the exception reaches line 257
RecvMalformed(c) ==
    /\ Receives(c, [type |-> "malformed", arg |-> 0])
    /\ Abort(c)
    /\ UNCHANGED <<reference_pitch_data, cmp_vars, seg_vars, last_user_pitch, ended, analysed, bc_iter, audio_buffer, current_time_offset,
                   total_samples, detect_calls, n_updates, resync>>

\* receive_text raises WebSocketDisconnect (line 254)
RecvDisconnect(c) ==
    /\ pc[c] = "receiving"
    /\ Abort(c)
    /\ UNCHANGED <<reference_pitch_data, cmp_vars, seg_vars, last_user_pitch, ended, analysed, bc_iter, audio_buffer, current_time_offset,
                   message, msgs_left, total_samples, detect_calls, n_updates, resync>>

\* send_text raises (lines 254-259)
SendFails(c) ==
    /\ pc[c] \in {"sending_update", "sending_complete"}
    /\ Abort(c)
    /\ UNCHANGED <<reference_pitch_data, cmp_vars, seg_vars, last_user_pitch, ended, analysed, bc_iter, audio_buffer, current_time_offset,
                   message, msgs_left, total_samples, detect_calls, n_updates, resync>>

\* one client, which sends up to MaxMsgs messages
Init ==
    /\ reference_pitch_data \in {<<>>, SessionReference}
    /\ CmpIdle
    /\ SegIdle
    /\ active_connections = <<>>
    /\ pc = [c \in Conns |-> IF c = "ws1" THEN "new" ELSE "absent"]
    /\ audio_buffer = [c \in Conns |-> <<>>]
    /\ current_time_offset = [c \in Conns |-> 0]
    /\ message = [c \in Conns |-> NoMsg]
    /\ pending = [c \in Conns |-> NoMsg]
    /\ msgs_left = [c \in Conns |-> IF c = "ws1" THEN MaxMsgs ELSE 0]
    /\ total_samples = [c \in Conns |-> 0]
    /\ detect_calls = [c \in Conns |-> 0]
    /\ n_updates = [c \in Conns |-> 0]
    /\ resync = [c \in Conns |-> NoResync]
    /\ last_user_pitch = [c \in Conns |-> <<>>]
    /\ ended = [c \in Conns |-> FALSE]
    /\ analysed = [c \in Conns |-> <<>>]
    /\ NoBroadcast

Next ==
    \E c \in Conns :
        \/ Accept(c)
        \/ Register(c)
        \/ AcceptFails(c)
        \/ \E n \in 0..MaxChunk : RecvAudioChunk(c, n)
        \/ SendUpdateDone(c)
        \/ \E position \in Positions : RecvSongPosition(c, position)
        \/ RecvEndPerformance(c)
        \/ SendCompleteDone(c)
        \/ RecvUnknownType(c)
        \/ RecvMalformed(c)
        \/ RecvDisconnect(c)
        \/ SendFails(c)

Spec == Init /\ [][Next]_vars

----------------------------------------------------------------------------
(* ConnectionManager.broadcast (main.py:70-72) and two concurrent clients *)

\* the list iterator of line 71: it yields active_connections[index] if the
\* list, as it is now, is that long, and ends the loop otherwise; the
\* coroutine then awaits send_text (line 72)
BroadcastAdvance(index) ==
    IF index < Len(active_connections)
    THEN /\ bc_target' = active_connections[index + 1]
         /\ bc_index' = index + 1
         /\ bc_pc' = "sending"
    ELSE /\ bc_target' = "nobody"
         /\ bc_index' = index
         /\ bc_pc' = "done"

\* manager.broadcast(message) is called
BroadcastStart ==
    /\ bc_pc = "idle"
    /\ bc_delivered' = [c \in Conns |-> 0]
    /\ bc_throughout' = {active_connections[i] : i \in 1..Len(active_connections)}
    /\ BroadcastAdvance(0)
    /\ UNCHANGED <<reference_pitch_data, cmp_vars, seg_vars, session_vars>>

\* send_text of line 72 returns, and the loop goes round
BroadcastSendDone ==
    /\ bc_pc = "sending"
    /\ bc_delivered' = [bc_delivered EXCEPT ![bc_target] = @ + 1]
    /\ BroadcastAdvance(bc_index)
    /\ UNCHANGED <<reference_pitch_data, cmp_vars, seg_vars, session_vars, bc_throughout>>

\* send_text of line 72 raises: the exception leaves broadcast
BroadcastSendFails ==
    /\ bc_pc = "sending"
    /\ bc_pc' = "failed"
    /\ bc_target' = "nobody"
    /\ UNCHANGED <<reference_pitch_data, cmp_vars, seg_vars, session_vars, bc_index,
                   bc_delivered, bc_throughout>>

\* two clients and one broadcast
InitMulti ==
    /\ reference_pitch_data = SessionReference
    /\ CmpIdle
    /\ SegIdle
    /\ active_connections = <<>>
    /\ pc = [c \in Conns |-> "new"]
    /\ audio_buffer = [c \in Conns |-> <<>>]
    /\ current_time_offset = [c \in Conns |-> 0]
    /\ message = [c \in Conns |-> NoMsg]
    /\ pending = [c \in Conns |-> NoMsg]
    /\ msgs_left = [c \in Conns |-> IF c = "ws1" THEN MultiMsgs ELSE 1]
    /\ total_samples = [c \in Conns |-> 0]
    /\ detect_calls = [c \in Conns |-> 0]
    /\ n_updates = [c \in Conns |-> 0]
    /\ resync = [c \in Conns |-> NoResync]
    /\ last_user_pitch = [c \in Conns |-> <<>>]
    /\ ended = [c \in Conns |-> FALSE]
    /\ analysed = [c \in Conns |-> <<>>]
    /\ NoBroadcast

NextMulti ==
    \/ Next
    \/ BroadcastStart
    \/ BroadcastSendDone
    \/ BroadcastSendFails

SpecMulti == InitMulti /\ [][NextMulti]_vars

----------------------------------------------------------------------------
(* Inputs of the comparator harness *)

RefTimes == {0, 60, 1000}

RefPitches == {None, Some(0), Some(200)}

UserTimes == {0, 30, 50}

UserPitches == {None, Some(150), Some(260)}

Offsets == {0, 1000}

PitchPoints(times, pitches) == [timestamp : times, pitch : pitches]

SeqsUpTo(S, n) == UNION {[1..k -> S] : k \in 0..n}

StrictlyIncreasing(curve) ==
    \A i, j \in 1..Len(curve) : i < j => curve[i].timestamp < curve[j].timestamp

\* reference curves: strictly increasing timestamps (spec section 3), possibly empty
ReferenceCurves ==
    {c \in SeqsUpTo(PitchPoints(RefTimes, RefPitches), MaxRefLen) : StrictlyIncreasing(c)}

UserLists == SeqsUpTo(PitchPoints(UserTimes, UserPitches), MaxUserLen)

\* Scenario A of the spec (section 8)
ScenarioA_reference ==
    <<[timestamp |-> 0, pitch |-> Some(200)], [timestamp |-> 1000, pitch |-> Some(210)]>>

ScenarioA_user == <<[timestamp |-> 0, pitch |-> Some(260)]>>

InitCmp ==
    /\ \/ /\ reference_pitch_data \in ReferenceCurves
          /\ cmp_user \in UserLists
          /\ cmp_offset \in Offsets
       \/ /\ reference_pitch_data = ScenarioA_reference
          /\ cmp_user = ScenarioA_user
          /\ cmp_offset = 0
    /\ cmp_out = NotCalled
    /\ cmp_prev = NotCalled
    /\ cmp_calls = 0
    /\ SegIdle
    /\ NoSessions

\* one call of compare_pitches(reference_pitch_data, cmp_user, cmp_offset);
\* the function only reads its arguments
CallComparePitches ==
    /\ cmp_calls < MaxCmpCalls
    /\ cmp_out' = compare_pitches(reference_pitch_data, cmp_user, cmp_offset)
    /\ cmp_prev' = cmp_out
    /\ cmp_calls' = cmp_calls + 1
    /\ UNCHANGED <<reference_pitch_data, cmp_user, cmp_offset, seg_vars, session_vars, bc_vars>>

NextCmp == CallComparePitches

SpecCmp == InitCmp /\ [][NextCmp]_vars

----------------------------------------------------------------------------
(* find_problem_sections (main.py:142-171) *)

\* the state of the scan before the first comparison (lines 144-145)
scan_start == [problem_sections |-> <<>>, current_section |-> None]

\* line 148 with >= for >
at_or_above_threshold(comp, threshold) ==
    ~IsNone(comp.deviation_percentage) /\ Val(comp.deviation_percentage) >= threshold

\* line 148
above_threshold(comp, threshold) ==
    ~IsNone(comp.deviation_percentage) /\ Val(comp.deviation_percentage) > threshold

\* lines 150-154
open_section(comp) ==
    [start_time |-> comp.timestamp, end_time |-> comp.timestamp,
     avg_deviation |-> Val(comp.deviation_percentage)]

\* lines 156-159 without the update of end_time
extend_section_no_end(section, comp) ==
    [section EXCEPT !.avg_deviation = (@ + Val(comp.deviation_percentage)) \div 2]

\* lines 156-159
extend_section(section, comp) ==
    [section EXCEPT !.end_time = comp.timestamp,
                    !.avg_deviation = (@ + Val(comp.deviation_percentage)) \div 2]

\* line 163: the duration filter on a section closed by a result
closed_long_enough(section) == section.end_time - section.start_time > MIN_SECTION

\* line 168 without its duration test
flushed_always(section) == TRUE

\* line 168: the duration filter on the section still open at the end
flushed_long_enough(section) == section.end_time - section.start_time > MIN_SECTION

\* one iteration of the for loop (lines 147-165)
scan_step(scan, comp, threshold) ==
    IF above_threshold(comp, threshold)
    THEN IF IsNone(scan.current_section)
         THEN [scan EXCEPT !.current_section = Some(open_section(comp))]
         ELSE [scan EXCEPT !.current_section = Some(extend_section(Val(@), comp))]
    ELSE IF ~IsNone(scan.current_section)
         THEN [problem_sections |->
                  IF closed_long_enough(Val(scan.current_section))
                  THEN Append(scan.problem_sections, Val(scan.current_section))
                  ELSE scan.problem_sections,
               current_section |-> None]
         ELSE scan

RECURSIVE scan_loop(_, _, _)
scan_loop(scan, comparisons, threshold) ==
    IF comparisons = <<>> THEN scan
    ELSE scan_loop(scan_step(scan, Head(comparisons), threshold), Tail(comparisons), threshold)

find_problem_sections(comparisons, threshold) ==
    LET scan == scan_loop(scan_start, comparisons, threshold)
    IN IF ~IsNone(scan.current_section) /\ flushed_long_enough(Val(scan.current_section))
       THEN Append(scan.problem_sections, Val(scan.current_section))
       ELSE scan.problem_sections

(* Inputs of the segmenter harness *)

SegTimes == {0, 500, 600}

\* deviations whose folded halves stay whole numbers
SegDeviations == {None, Some(16), Some(48), Some(64)}

Thresholds == {30, 48}

SegComparison(t, d) ==
    [timestamp |-> t, reference_pitch |-> Some(100), user_pitch |-> Some(100),
     deviation_percentage |-> d]

SegPoints == {SegComparison(t, d) : t \in SegTimes, d \in SegDeviations}

\* a section closed by a result at or below the threshold, then one left open
TwoSections ==
    <<SegComparison(0, Some(64)), SegComparison(600, Some(64)), SegComparison(700, Some(16)),
      SegComparison(800, Some(48)), SegComparison(1400, Some(64))>>

\* two sections around a low result that carries the timestamp of its neighbours
TouchingSections ==
    <<SegComparison(0, Some(64)), SegComparison(600, Some(64)), SegComparison(600, Some(16)),
      SegComparison(600, Some(48)), SegComparison(1200, Some(64))>>

\* Scenario B of the spec (section 8); the folded average of its first run is
\* 46.25, which the whole-number division rounds, in a section that is discarded
ScenarioB ==
    <<SegComparison(0, Some(40)), SegComparison(200, Some(45)), SegComparison(400, Some(50)),
      SegComparison(600, Some(20)), SegComparison(800, Some(35))>>

InitSeg ==
    /\ \/ /\ seg_in \in SeqsUpTo(SegPoints, MaxSegLen)
          /\ seg_threshold \in Thresholds
       \/ /\ seg_in \in {TwoSections, TouchingSections, ScenarioB}
          /\ seg_threshold = 30
    /\ seg_out = SegNotCalled
    /\ reference_pitch_data = <<>>
    /\ CmpIdle
    /\ NoSessions

CallFindProblemSections ==
    /\ ~seg_out.called
    /\ seg_out' = [called |-> TRUE, value |-> find_problem_sections(seg_in, seg_threshold)]
    /\ UNCHANGED <<reference_pitch_data, cmp_vars, seg_in, seg_threshold, session_vars, bc_vars>>

NextSeg == CallFindProblemSections

SpecSeg == InitSeg /\ [][NextSeg]_vars

----------------------------------------------------------------------------
(* Properties of compare_pitches, checked under SpecCmp *)

Called == cmp_calls > 0

Results == cmp_out.value

\* what a nearest-timestamp lookup with tolerance d is specified to return:
\* the closest reference sample, the lower timestamp winning a tie
NearestIdx(reference, t) ==
    CHOOSE k \in 1..Len(reference) :
        \A j \in 1..Len(reference) :
            \/ Abs(reference[k].timestamp - t) < Abs(reference[j].timestamp - t)
            \/ /\ Abs(reference[k].timestamp - t) = Abs(reference[j].timestamp - t)
               /\ reference[k].timestamp <= reference[j].timestamp

RECURSIVE ExpectedMatches(_, _, _, _)
ExpectedMatches(reference, user, offset, d) ==
    IF user = <<>> THEN <<>>
    ELSE LET t == Head(user).timestamp + offset
             rest == ExpectedMatches(reference, Tail(user), offset, d)
         IN IF \E k \in 1..Len(reference) : Abs(reference[k].timestamp - t) <= d
            THEN <<[timestamp |-> t,
                    reference_pitch |-> reference[NearestIdx(reference, t)].pitch,
                    user_pitch |-> Head(user).pitch]>> \o rest
            ELSE rest

Matches(results) ==
    [i \in 1..Len(results) |->
        [timestamp |-> results[i].timestamp,
         reference_pitch |-> results[i].reference_pitch,
         user_pitch |-> results[i].user_pitch]]

\* C5: for a strictly increasing (non-empty) reference curve every user sample
\* is matched to the closest reference sample, lower timestamp winning a tie,
\* and is dropped only when further than the tolerance from every reference
\* timestamp, so that a distance of exactly the tolerance still matches.
C5_NearestWithinTolerance ==
    (Called /\ reference_pitch_data # <<>> /\ StrictlyIncreasing(reference_pitch_data))
        => /\ cmp_out.raised = ""
           /\ Matches(Results)
                = ExpectedMatches(reference_pitch_data, cmp_user, cmp_offset, TOLERANCE)

\* what the code does instead: a match needs a distance strictly below the tolerance
NearestStrictlyWithinTolerance ==
    (Called /\ reference_pitch_data # <<>> /\ StrictlyIncreasing(reference_pitch_data))
        => /\ cmp_out.raised = ""
           /\ Matches(Results)
                = ExpectedMatches(reference_pitch_data, cmp_user, cmp_offset, TOLERANCE - 1)

DeviationDefined(c) ==
    /\ ~IsNone(c.reference_pitch)
    /\ ~IsNone(c.user_pitch)
    /\ Val(c.reference_pitch) > 0

\* C6: deviation_percentage is present exactly when both pitches are present
\* and the reference pitch is > 0; then it is |user - ref| / ref * 100 and >= 0
\* (ref 200, user 260 gives 30); otherwise it is None.
C6_Deviation ==
    \A i \in 1..Len(Results) :
        LET c == Results[i]
        IN /\ IsNone(c.deviation_percentage) <=> ~DeviationDefined(c)
           /\ DeviationDefined(c) =>
                /\ Val(c.deviation_percentage) >= 0
                /\ Val(c.deviation_percentage) * Val(c.reference_pitch)
                     = Abs(Val(c.user_pitch) - Val(c.reference_pitch)) * 100
           /\ (c.reference_pitch = Some(200) /\ c.user_pitch = Some(260))
                => c.deviation_percentage = Some(30)

\* a call that returned a result with deviation 30 and a result whose
\* deviation is None although both pitches are present (reference pitch 0)
C6_Witness ==
    /\ Called
    /\ \E i \in 1..Len(Results) : Results[i].deviation_percentage = Some(30)
    /\ \E i \in 1..Len(Results) :
          /\ Results[i].reference_pitch = Some(0)
          /\ ~IsNone(Results[i].user_pitch)
          /\ Results[i].deviation_percentage = None

\* C7: every result carries a direction: ABOVE when its deviation is defined
\* and the user pitch is above the reference pitch, BELOW when defined
\* otherwise, None when the deviation is undefined.
C7_Direction ==
    \A i \in 1..Len(Results) :
        LET c == Results[i]
        IN /\ "direction" \in DOMAIN c
           /\ DeviationDefined(c) =>
                c.direction = (IF Val(c.user_pitch) > Val(c.reference_pitch)
                               THEN "ABOVE" ELSE "BELOW")
           /\ ~DeviationDefined(c) => c.direction = "None"

\* C8: for every reference curve, the empty one included, and every non-empty
\* user list the call returns normally, with one result per user sample that
\* has a reference sample within tolerance, in user order, and nothing else.
C8_UnmatchedDropped ==
    (Called /\ cmp_user # <<>> /\ StrictlyIncreasing(reference_pitch_data))
        => /\ cmp_out.raised = ""
           /\ Matches(Results)
                = ExpectedMatches(reference_pitch_data, cmp_user, cmp_offset, TOLERANCE - 1)

----------------------------------------------------------------------------
(* Properties of the session loop, checked under Spec *)

\* the step in which session c receives a message
Receipt(c) == msgs_left'[c] = msgs_left[c] - 1

SongPositionStep(c) == Receipt(c) /\ message'[c].type = "song_position"

\* the step in which a pitch_update of session c is delivered
UpdateStep(c) == n_updates'[c] = n_updates[c] + 1

\* C1: while the samples a session has received total fewer than
\* samples_per_buffer, whatever song_position messages came in between, it
\* has not run pitch detection and has neither sent nor started to send a
\* pitch_update.
C1_NoFrameBeforeFullBuffer ==
    \A c \in Conns :
        total_samples[c] < samples_per_buffer
            => /\ detect_calls[c] = 0
               /\ n_updates[c] = 0
               /\ pending[c].type # "pitch_update"

\* three messages in, a song_position among them, one sample short of a buffer
C1_Witness ==
    \E c \in Conns :
        /\ pc[c] = "receiving"
        /\ msgs_left[c] <= MaxMsgs - 3
        /\ ~IsNone(resync[c].position)
        /\ message[c].type = "audio_chunk"
        /\ total_samples[c] = samples_per_buffer - 1

\* C2: a song_position message overwrites the offset with its position and
\* leaves the pending buffer as it was; the first pitch_update delivered after
\* it, with no other song_position in between, reports that position as
\* time_offset, and each of its comparisons has the timestamp of one of its
\* user samples plus that position.
C2_SongPositionResyncs ==
    [][\A c \in Conns :
          /\ SongPositionStep(c) =>
                /\ current_time_offset'[c] = message'[c].arg
                /\ audio_buffer'[c] = audio_buffer[c]
          /\ (UpdateStep(c) /\ ~IsNone(resync[c].position) /\ resync[c].update = NoMsg) =>
                /\ pending[c].type = "pitch_update"
                /\ resync'[c].update = pending[c]
                /\ pending[c].time_offset = Val(resync[c].position)
                /\ \A k \in 1..Len(pending[c].comparisons) :
                      \E u \in 1..Len(pending[c].user_pitch) :
                          /\ pending[c].comparisons[k].timestamp
                               = pending[c].user_pitch[u].timestamp + Val(resync[c].position)
                          /\ pending[c].comparisons[k].user_pitch
                               = pending[c].user_pitch[u].pitch]_vars

\* a session that had advanced its offset by processing a buffer, was then sent
\* song_position 2500, and has since delivered a pitch_update with comparisons
C2_Witness ==
    \E c \in Conns :
        /\ n_updates[c] >= 2
        /\ resync[c].position = Some(2500)
        /\ resync[c].update # NoMsg
        /\ resync[c].update.time_offset = 2500
        /\ resync[c].update.comparisons # <<>>

\* C3: once the handling of an audio_chunk message is complete, the pending
\* buffer holds fewer than samples_per_buffer samples, whatever the size of
\* the chunk.
C3_BufferBelowOneFrame ==
    \A c \in Conns :
        pc[c] = "receiving" => Len(audio_buffer[c]) < samples_per_buffer

\* C4: the offset of a session starts at 0; a step that is not the receipt of
\* a song_position message advances it by exactly buffer_duration when it
\* completes the processing of a buffer, and leaves it unchanged otherwise
\* (audio chunks that do not fill the buffer, end_performance), so that it
\* never decreases.
C4_OffsetMonotonic ==
    /\ \A c \in Conns : current_time_offset[c] = 0
    /\ [][\A c \in Conns :
             ~SongPositionStep(c) =>
                /\ current_time_offset'[c] >= current_time_offset[c]
                /\ current_time_offset'[c] =
                      IF UpdateStep(c)
                      THEN current_time_offset[c] + buffer_duration
                      ELSE current_time_offset[c]]_vars

\* two buffers processed and no seek: the offset stands at two buffer
\* durations when an end_performance message has been answered
C4_Witness ==
    \E c \in Conns :
        /\ IsNone(resync[c].position)
        /\ n_updates[c] = 2
        /\ current_time_offset[c] = 2 * buffer_duration
        /\ message[c].type = "end_performance"
        /\ pc[c] = "receiving"

----------------------------------------------------------------------------
(* Properties of find_problem_sections, checked under SpecSeg *)

\* C10: every section find_problem_sections returns has end_time - start_time
\* strictly above 0.5 s, whether a below-threshold result closed it or it was
\* still open when the input ended.
C10_SectionsLongerThanHalfSecond ==
    \A i \in 1..Len(seg_out.value) :
        seg_out.value[i].end_time - seg_out.value[i].start_time > MIN_SECTION

\* a call that returned a section closed by a later result and a section that
\* was open at the end of its input
C10_Witness ==
    /\ seg_out.called
    /\ Len(seg_out.value) = 2
    /\ above_threshold(seg_in[Len(seg_in)], seg_threshold)
    /\ seg_out.value[2].end_time = seg_in[Len(seg_in)].timestamp

\* what the segmenter is specified to group: the maximal runs of consecutive
\* results whose deviation is present and above the threshold
Above(i) ==
    /\ ~IsNone(seg_in[i].deviation_percentage)
    /\ Val(seg_in[i].deviation_percentage) > seg_threshold

RunEnd(i) ==
    CHOOSE j \in i..Len(seg_in) :
        /\ \A k \in i..j : Above(k)
        /\ j = Len(seg_in) \/ ~Above(j + 1)

RECURSIVE RunsFrom(_)
RunsFrom(i) ==
    IF i > Len(seg_in) THEN <<>>
    ELSE IF ~Above(i) THEN RunsFrom(i + 1)
    ELSE <<[first |-> i, last |-> RunEnd(i)]>> \o RunsFrom(RunEnd(i) + 1)

Runs == RunsFrom(1)

RunSpan(run) ==
    [start_time |-> seg_in[run.first].timestamp, end_time |-> seg_in[run.last].timestamp]

RECURSIVE LongRunsOf(_)
LongRunsOf(runs) ==
    IF runs = <<>> THEN <<>>
    ELSE IF RunSpan(Head(runs)).end_time - RunSpan(Head(runs)).start_time > MIN_SECTION
         THEN <<Head(runs)>> \o LongRunsOf(Tail(runs))
         ELSE LongRunsOf(Tail(runs))

LongRuns == LongRunsOf(Runs)

Spans(sections) ==
    [k \in 1..Len(sections) |->
        [start_time |-> sections[k].start_time, end_time |-> sections[k].end_time]]

NonDecreasing(comparisons) ==
    \A i, j \in 1..Len(comparisons) :
        i < j => comparisons[i].timestamp <= comparisons[j].timestamp

\* the scan after the first i results
ScanAfter(i) == scan_loop(scan_start, SubSeq(seg_in, 1, i), seg_threshold)

\* every above-threshold result is in exactly one run, and lies within the
\* time span of that run; the emitted sections are the runs longer than 0.5 s
OneSectionEach ==
    /\ \A i \in 1..Len(seg_in) :
          Above(i) =>
             /\ Cardinality({k \in 1..Len(Runs) : Runs[k].first <= i /\ i <= Runs[k].last}) = 1
             /\ \A k \in 1..Len(Runs) :
                   (Runs[k].first <= i /\ i <= Runs[k].last) =>
                      /\ RunSpan(Runs[k]).start_time <= seg_in[i].timestamp
                      /\ seg_in[i].timestamp <= RunSpan(Runs[k]).end_time
    /\ Len(seg_out.value) = Len(LongRuns)
    /\ \A k \in 1..Len(LongRuns) : Spans(seg_out.value)[k] = RunSpan(LongRuns[k])

\* C11 as stated: for comparisons in non-decreasing timestamp order every
\* above-threshold result belongs to exactly one section, emitted or
\* discarded, and the emitted sections are in increasing start_time order
\* and pairwise disjoint in time.
C11_SectionsDisjoint ==
    (seg_out.called /\ NonDecreasing(seg_in)) =>
        /\ OneSectionEach
        /\ \A k \in 1..(Len(seg_out.value) - 1) :
              /\ seg_out.value[k].start_time < seg_out.value[k+1].start_time
              /\ seg_out.value[k].end_time < seg_out.value[k+1].start_time

\* C11 as amended: the same, but a section may end at the very instant the
\* next one starts (end_time <= next start_time); the sections are disjoint
\* when the timestamps are strictly increasing.
C11_SectionsOrdered ==
    (seg_out.called /\ NonDecreasing(seg_in)) =>
        /\ OneSectionEach
        /\ \A k \in 1..(Len(seg_out.value) - 1) :
              /\ seg_out.value[k].start_time < seg_out.value[k+1].start_time
              /\ seg_out.value[k].end_time <= seg_out.value[k+1].start_time
              /\ StrictlyIncreasing(seg_in)
                    => seg_out.value[k].end_time < seg_out.value[k+1].start_time

\* a call on ordered input that returned two sections and discarded nothing
\* but the results between them
C11_Witness ==
    /\ seg_out.called
    /\ NonDecreasing(seg_in)
    /\ Len(seg_out.value) = 2
    /\ seg_out.value[1].end_time < seg_out.value[2].start_time

RECURSIVE SumDeviations(_, _)
SumDeviations(i, j) ==
    IF i > j THEN 0 ELSE Val(seg_in[i].deviation_percentage) + SumDeviations(i + 1, j)

\* C12: the avg_deviation of every emitted section is the arithmetic mean of
\* the deviations of all the results of its run, whatever the length of the run.
C12_AvgIsMean ==
    (seg_out.called /\ NonDecreasing(seg_in)) =>
        /\ Len(seg_out.value) = Len(LongRuns)
        /\ \A k \in 1..Len(LongRuns) :
              seg_out.value[k].avg_deviation * (LongRuns[k].last - LongRuns[k].first + 1)
                 = SumDeviations(LongRuns[k].first, LongRuns[k].last)

\* C19: at most one section is open: after each result the scan has an open
\* section exactly when that result is above the threshold, and the section
\* spans the run that ends there; so the sections returned are the maximal
\* runs of above-threshold results that last longer than 0.5 s, with the
\* timestamps of the first and the last result of the run.  Scenario B forms
\* the runs [0.0,0.4] and [0.8,0.8] and returns nothing.
C19_MaximalRuns ==
    seg_out.called =>
        /\ \A i \in 1..Len(seg_in) :
              /\ ~IsNone(ScanAfter(i).current_section) <=> Above(i)
              /\ Above(i) =>
                    \E k \in 1..Len(Runs) :
                       /\ Runs[k].first <= i /\ i <= Runs[k].last
                       /\ Val(ScanAfter(i).current_section).start_time
                             = seg_in[Runs[k].first].timestamp
                       /\ Val(ScanAfter(i).current_section).end_time = seg_in[i].timestamp
        /\ Spans(seg_out.value) = [k \in 1..Len(LongRuns) |-> RunSpan(LongRuns[k])]
        /\ seg_in = ScenarioB =>
              /\ [k \in 1..Len(Runs) |-> RunSpan(Runs[k])]
                    = <<[start_time |-> 0, end_time |-> 400],
                        [start_time |-> 800, end_time |-> 800]>>
              /\ seg_out.value = <<>>

\* the call on Scenario B has returned
C19_Witness == seg_out.called /\ seg_in = ScenarioB /\ Len(Runs) = 2

----------------------------------------------------------------------------
(* Further properties of the session loop, checked under Spec *)

Registered(list, c) == \E i \in 1..Len(list) : list[i] = c

\* C13: a malformed inbound message (not JSON, no 'type', missing or
\* undecodable fields, unknown type) is answered with an error event and
\* does not end the session: the connection stays registered, the session
\* goes on receiving, and its buffer and offset are as before.
C13_MalformedReported ==
    [][\A c \in Conns :
          (Receipt(c) /\ message'[c].type \in {"malformed", "unknown"}) =>
             /\ pending'[c].type = "error"
             /\ pc'[c] \notin {"closed", "crashed"}
             /\ Registered(active_connections', c)
             /\ audio_buffer'[c] = audio_buffer[c]
             /\ current_time_offset'[c] = current_time_offset[c]]_vars

\* C14: once an end_performance message has been received, the session no
\* longer processes audio_chunk or song_position messages: its buffer and
\* offset stay as they are and it starts no pitch_update.
C14_EndStopsProcessing ==
    [][\A c \in Conns :
          ended[c] =>
             /\ audio_buffer'[c] = audio_buffer[c]
             /\ current_time_offset'[c] = current_time_offset[c]
             /\ pending'[c].type # "pitch_update"]_vars

\* C18: when detect_pitch_from_audio returns an empty list for a full buffer,
\* the session is not aborted: a pitch_update with empty user_pitch and empty
\* comparisons is handed to send_text with the connection still registered,
\* and once it is delivered the consumed samples are gone from the buffer and
\* the offset has advanced by buffer_duration.
C18_EstimationFailureTolerated ==
    [][\A c \in Conns :
          /\ (Receipt(c) /\ detect_calls'[c] = detect_calls[c] + 1
                         /\ last_user_pitch'[c] = <<>>) =>
                /\ pc'[c] = "sending_update"
                /\ pending'[c] = pitch_update(<<>>, <<>>, current_time_offset[c])
                /\ Registered(active_connections', c)
          /\ (UpdateStep(c) /\ pending[c].user_pitch = <<>>) =>
                /\ pending[c].comparisons = <<>>
                /\ Len(audio_buffer'[c]) = Len(audio_buffer[c]) - samples_per_buffer
                /\ \A i \in 1..Len(audio_buffer'[c]) :
                      audio_buffer'[c][i] = audio_buffer[c][i + samples_per_buffer]
                /\ current_time_offset'[c] = current_time_offset[c] + buffer_duration
                /\ pc'[c] = "receiving"
                /\ Registered(active_connections', c)]_vars

\* over an empty reference curve, an empty detection was reported and the
\* session is receiving again
C18_Witness ==
    \E c \in Conns :
        /\ reference_pitch_data = <<>>
        /\ last_user_pitch[c] = <<>>
        /\ n_updates[c] >= 1
        /\ pc[c] = "receiving"
        /\ Registered(active_connections, c)

\* C20: no sample is lost, duplicated or reordered: the analysed buffers, in
\* the order their pitch_update was delivered, followed by the pending buffer
\* are the samples received, in arrival order; every analysed buffer has
\* samples_per_buffer samples; and a buffer is analysed only when the
\* pitch_update of every buffer analysed before it has been delivered.
C20_NoSampleLost ==
    \A c \in Conns :
        /\ analysed[c] \o audio_buffer[c] = [i \in 1..total_samples[c] |-> i]
        /\ Len(analysed[c]) = n_updates[c] * samples_per_buffer
        /\ detect_calls[c] <= n_updates[c] + 1
        /\ pc[c] = "sending_update" => detect_calls[c] = n_updates[c] + 1
        /\ pc[c] = "receiving" => detect_calls[c] = n_updates[c]

\* two buffers analysed and delivered, a third being sent, samples left over
C20_Witness ==
    \E c \in Conns :
        /\ n_updates[c] = 2
        /\ pc[c] = "sending_update"
        /\ Len(audio_buffer[c]) > samples_per_buffer

----------------------------------------------------------------------------
(* Properties of the registry and of concurrent sessions, under SpecMulti *)

Occurrences(list, c) == Cardinality({i \in 1..Len(list) : list[i] = c})

\* the session loop of c is running
Running(c) == pc[c] \in {"receiving", "sending_update", "sending_complete"}

\* C15: the registry holds exactly the connections whose session loop is
\* running, each once: a connection is added once when accepted and removed
\* once when its session ends, and no removal finds the connection absent.
C15_RegistryIsRunningSessions ==
    \A c \in Conns :
        /\ Occurrences(active_connections, c) = (IF Running(c) THEN 1 ELSE 0)
        /\ pc[c] # "crashed"

\* one session ended while the other, accepted after it, is still running
C15_Witness ==
    /\ pc["ws1"] = "closed"
    /\ message["ws1"].type = "malformed"
    /\ pc["ws2"] = "sending_update"
    /\ active_connections = <<"ws2">>

\* C16: when a broadcast has gone through the registry, every connection
\* that was registered for the whole of the broadcast has received the
\* message exactly once, whatever connects and disconnects happened while
\* the broadcast was suspended in a send.
C16_BroadcastReachesAll ==
    bc_pc = "done" => \A c \in bc_throughout : bc_delivered[c] = 1

\* the other half of C16: a send is only ever started to a connection that
\* is in the registry at that moment, and nobody receives the message twice
BroadcastTargetsRegistered ==
    [][/\ (bc_pc' = "sending" /\ bc_index' # bc_index)
             => Registered(active_connections, bc_target')
       /\ \A c \in Conns : bc_delivered'[c] <= 1]_vars

\* the step is one of session c
StepOf(c) == pc'[c] # pc[c] \/ msgs_left'[c] # msgs_left[c]

Without(list, c) == SelectSeq(list, LAMBDA x : x # c)

\* C17: a step of one session leaves the buffer and the offset of every
\* other session as they were and changes the registry at most by adding
\* that session when it is accepted or removing it when it ends; a step of
\* no session changes no buffer, offset or registry; the reference curve
\* never changes.
C17_SessionsIsolated ==
    [][/\ reference_pitch_data' = reference_pitch_data
       /\ \A c \in Conns :
             StepOf(c) =>
                /\ \A d \in Conns \ {c} :
                      /\ audio_buffer'[d] = audio_buffer[d]
                      /\ current_time_offset'[d] = current_time_offset[d]
                      /\ pc'[d] = pc[d]
                /\ Without(active_connections', c) = Without(active_connections, c)
                /\ active_connections' # active_connections =>
                      \/ pc[c] = "accepting" /\ pc'[c] = "receiving"
                      \/ pc'[c] = "closed" /\ active_connections' = Without(active_connections, c)
       /\ (\A c \in Conns : ~StepOf(c)) =>
             /\ audio_buffer' = audio_buffer
             /\ current_time_offset' = current_time_offset
             /\ active_connections' = active_connections]_vars

\* ws1 has failed on a message while ws2, registered before it, holds
\* pending samples and a seeked offset of its own
C17_Witness ==
    /\ pc["ws1"] = "closed"
    /\ message["ws1"].type = "malformed"
    /\ pc["ws2"] = "receiving"
    /\ audio_buffer["ws2"] # <<>>
    /\ active_connections = <<"ws2">>
    /\ bc_pc = "idle"

====
